---- MODULE Spec2Model ----
(***************************************************************************)
(* Model of bot.py: a Telegram bot that counts fish eggs reported by the   *)
(* members of farmer groups, per calendar month (Asia/Jakarta).            *)
(*                                                                         *)
(* Handlers are dispatched one update at a time (the Application is built  *)
(* without concurrent_updates), so every handler is one atomic action.     *)
(* A handler that raises is caught by the dispatcher, which logs the       *)
(* exception and goes on with the next update; how the last handler ended  *)
(* is kept in outcome.                                                     *)
(***************************************************************************)
EXTENDS Integers, Sequences, FiniteSets, TLC

\* ------------------------------------------------------------------ bounds
\* The wall clock runs over ticks 0..MaxClock.
MaxClock == 2
\* Ticks (seconds) per day and days per month of the model calendar.
TicksPerDay == 1
DaysPerMonth == 2
\* An account's log holds at most MaxLog entries, the store MaxEntries.
MaxLog == 2
MaxEntries == 3

\* --------------------------------------------------------- program constants
GROUP_CHOICE == 0
\* ConversationHandler.END
END == -1

\* Telegram user ids.
Users == {1, 2}
\* The two groups offered by the reply keyboard of start.
Groups == {"Samawa Fish", "Karya Mina Rahayu"}
\* context.user_data.get('group') when the key is absent.
NoGroup == ""
\* Display labels returned by the chat lookup (username or first name).
Labels == {"budi", "sari"}

\* Message texts sent to count_eggs, as sequences of characters.
Texts ==
  { <<"2", " ", "b", "u", "t", "i", "r">>,
    <<"h", "a", "l", "o", " ", "3">> }

VARIABLES
  clock,              \* datetime.now(jakarta_tz), in ticks
  group_data,         \* group -> ordered dict user_id -> {'total_eggs', 'logs'}
  total_eggs,         \* the module-level total
  last_reset_date,    \* '%Y-%m' of the last reset
  context_user_data,  \* per user: context.user_data['group'] or NoGroup
  conversation,       \* per user: state of the ConversationHandler
  outcome,            \* how the last handler ended
  recorded,           \* history: the acknowledged reports of the current
                      \* month, in arrival order
  tasks               \* per user: the handler that is suspended at an await

vars == <<clock, group_data, total_eggs, last_reset_date,
          context_user_data, conversation, outcome, recorded, tasks>>

\* ------------------------------------------------------------ time formats
\* A formatted time is the sequence of its fields, most significant first:
\* '%Y-%m' has one field, '%Y-%m-%d' two, '%Y-%m-%d %H:%M:%S' three.
strftime_Ym(t) == << t \div (TicksPerDay * DaysPerMonth) >>

strftime_Ymd(t) ==
  << t \div (TicksPerDay * DaysPerMonth), (t \div TicksPerDay) % DaysPerMonth >>

strftime_YmdHMS(t) ==
  << t \div (TicksPerDay * DaysPerMonth), (t \div TicksPerDay) % DaysPerMonth,
     t % TicksPerDay >>

\* str.startswith
startswith(s, prefix) ==
  /\ Len(prefix) <= Len(s)
  /\ SubSeq(s, 1, Len(prefix)) = prefix

\* log['date'].split(' ')[0]
DatePart(date) == SubSeq(date, 1, 2)

\* ------------------------------------------------------------ egg_pattern
IsDigit(c) == c \in {"0", "1", "2", "3", "4", "5", "6", "7", "8", "9"}

IsSpace(c) == c \in {" ", "\t", "\n"}

DigitValue(c) ==
  CASE c = "0" -> 0 [] c = "1" -> 1 [] c = "2" -> 2 [] c = "3" -> 3
    [] c = "4" -> 4 [] c = "5" -> 5 [] c = "6" -> 6 [] c = "7" -> 7
    [] c = "8" -> 8 [] c = "9" -> 9

\* re.IGNORECASE on the letters of the keyword
Lower(c) ==
  CASE c = "B" -> "b" [] c = "U" -> "u" [] c = "T" -> "t" [] c = "I" -> "i"
    [] c = "R" -> "r" [] OTHER -> c

Keyword == <<"b", "u", "t", "i", "r">>

\* The keyword stands at position k of text.
KeywordAt(text, k) ==
  /\ k + Len(Keyword) - 1 <= Len(text)
  /\ \A j \in 1..Len(Keyword) : Lower(text[k + j - 1]) = Keyword[j]

\* End of the run of characters satisfying the class that starts at i
\* (i - 1 when text[i] is not in the class).
RECURSIVE DigitRunEnd(_, _)
DigitRunEnd(text, i) ==
  IF i <= Len(text) /\ IsDigit(text[i]) THEN DigitRunEnd(text, i + 1) ELSE i - 1

RECURSIVE SpaceRunEnd(_, _)
SpaceRunEnd(text, i) ==
  IF i <= Len(text) /\ IsSpace(text[i]) THEN SpaceRunEnd(text, i + 1) ELSE i - 1

\* (\d+)\s*butir matches at start position i: a digit at i, the greedy
\* digit run, the greedy whitespace run, then the keyword.  Giving back
\* digits or whitespace never helps, the next item could not match them.
MatchAt(text, i) ==
  /\ i <= Len(text)
  /\ IsDigit(text[i])
  /\ KeywordAt(text, SpaceRunEnd(text, DigitRunEnd(text, i) + 1) + 1)

\* int(match.group(1))
RECURSIVE int(_)
int(digits) ==
  IF digits = <<>> THEN 0
  ELSE 10 * int(SubSeq(digits, 1, Len(digits) - 1)) + DigitValue(digits[Len(digits)])

\* search_from that keeps the last position that matches.
RECURSIVE search_from_last(_, _)
search_from_last(text, i) ==
  IF i > Len(text) THEN 0
  ELSE LET later == search_from_last(text, i + 1)
       IN IF later # 0 THEN later ELSE IF MatchAt(text, i) THEN i ELSE 0

\* The scan of egg_pattern.search from start position i: the leftmost
\* position that matches, 0 for None.
RECURSIVE search_from(_, _)
search_from(text, i) ==
  IF i > Len(text) THEN 0
  ELSE IF MatchAt(text, i) THEN i
  ELSE search_from(text, i + 1)

\* egg_pattern.search(message_text)
search(text) == search_from(text, 1)

\* match.group(1)
group1(text, i) == SubSeq(text, i, DigitRunEnd(text, i))

\* ------------------------------------------------------------------ dicts
\* A Python dict that is iterated is the sequence of its items in insertion
\* order; group_data itself is only indexed and is a function.
Keys(d) == {d[i].key : i \in 1..Len(d)}

Get(d, k) == d[CHOOSE i \in 1..Len(d) : d[i].key = k].value

\* d[k] = v for a key that is not in d yet: the item goes last.
Insert(d, k, v) == Append(d, [key |-> k, value |-> v])

\* d[k] = v for a key of d: the item keeps its position.
Update(d, k, v) ==
  [i \in 1..Len(d) |-> IF d[i].key = k THEN [key |-> k, value |-> v] ELSE d[i]]

\* {}
EmptyStore == [g \in {} |-> <<>>]

\* {'total_eggs': 0, 'logs': []}
NewAccount == [total_eggs |-> 0, logs |-> <<>>]

RECURSIVE SumEggs(_)
SumEggs(logs) ==
  IF logs = <<>> THEN 0 ELSE logs[1].eggs + SumEggs(Tail(logs))

\* Number of log entries held by the store gd.
RECURSIVE CountItems(_)
CountItems(d) ==
  IF d = <<>> THEN 0 ELSE Len(d[1].value.logs) + CountItems(Tail(d))

RECURSIVE CountEntries(_, _)
CountEntries(gd, gs) ==
  IF gs = {} THEN 0
  ELSE LET g == CHOOSE x \in gs : TRUE
       IN CountItems(gd[g]) + CountEntries(gd, gs \ {g})

\* ------------------------------------------------- reset_data_if_needed
\* The test of reset_data_if_needed when the clock reads t.
needs_reset(t) == strftime_Ym(t) # last_reset_date

\* reset_data_if_needed without line 52.
reset_group_data_kept(t) == group_data

\* The globals after reset_data_if_needed has run with the clock at t.
reset_group_data(t) == IF needs_reset(t) THEN EmptyStore ELSE group_data

\* reset_data_if_needed without line 53.
reset_total_eggs_kept(t) == total_eggs

reset_total_eggs(t) == IF needs_reset(t) THEN 0 ELSE total_eggs

reset_last_reset_date(t) ==
  IF needs_reset(t) THEN strftime_Ym(t) ELSE last_reset_date

\* -------------------------------------------------------------- report
\* The items of every group of gd.
RECURSIVE all_items(_, _)
all_items(gd, gs) ==
  IF gs = {} THEN <<>>
  ELSE LET g == CHOOSE x \in gs : TRUE
       IN gd[g] \o all_items(gd, gs \ {g})

\* group_items that does not filter by group.
group_items_all(gd, group) == all_items(gd, DOMAIN gd)

\* group_data[group].items()
group_items(gd, group) == gd[group]

\* report_logs without the test of line 151: the entries of every day are
\* listed.
RECURSIVE report_logs_all_days(_, _, _, _)
report_logs_all_days(logs, user_name, today, acc) ==
  IF logs = <<>> THEN acc
  ELSE LET log == Head(logs)
       IN report_logs_all_days(Tail(logs), user_name, today,
            [lines |-> Append(acc.lines,
                 [number |-> acc.entry_number, user_name |-> user_name,
                  eggs |-> log.eggs, date |-> log.date]),
             total_eggs_today |-> acc.total_eggs_today + log.eggs,
             entry_number |-> acc.entry_number + 1])

\* The loop of lines 150-154 over the logs of one account.  acc carries
\* report_message (as its lines), total_eggs_today and entry_number.
RECURSIVE report_logs(_, _, _, _)
report_logs(logs, user_name, today, acc) ==
  IF logs = <<>> THEN acc
  ELSE LET log == Head(logs)
       IN IF startswith(log.date, today)
          THEN report_logs(Tail(logs), user_name, today,
                 [lines |-> Append(acc.lines,
                      [number |-> acc.entry_number, user_name |-> user_name,
                       eggs |-> log.eggs, date |-> log.date]),
                  total_eggs_today |-> acc.total_eggs_today + log.eggs,
                  entry_number |-> acc.entry_number + 1])
          ELSE report_logs(Tail(logs), user_name, today, acc)

\* report_items that visits the accounts last to first.
RECURSIVE report_items_last_first(_, _, _, _)
report_items_last_first(items, names, today, acc) ==
  IF items = <<>> THEN acc
  ELSE report_logs(Head(items).value.logs, names[Head(items).key], today,
         report_items_last_first(Tail(items), names, today, acc))

\* The loop of lines 147-154 over group_data[group].items().
RECURSIVE report_items(_, _, _, _)
report_items(items, names, today, acc) ==
  IF items = <<>> THEN acc
  ELSE report_items(Tail(items), names, today,
         report_logs(Head(items).value.logs, names[Head(items).key], today, acc))

\* The report message of lines 143-156 for the accounts of one group.
report_message(members, names, today) ==
  report_items(members, names, today,
               [lines |-> <<>>, total_eggs_today |-> 0, entry_number |-> 1])

\* -------------------------------------------------------------- export
\* add_row that replaces the rows of a date already seen.
add_row_overwrite(datewise_data, date, row) ==
  IF date \in Keys(datewise_data)
  THEN Update(datewise_data, date, <<row>>)
  ELSE Insert(datewise_data, date, <<row>>)

\* datewise_data after lines 180-182 for one row.
add_row(datewise_data, date, row) ==
  IF date \in Keys(datewise_data)
  THEN Update(datewise_data, date, Append(Get(datewise_data, date), row))
  ELSE Insert(datewise_data, date, <<row>>)

\* The loop of lines 178-182 over the logs of one account.
RECURSIVE export_logs(_, _, _)
export_logs(logs, user_name, datewise_data) ==
  IF logs = <<>> THEN datewise_data
  ELSE export_logs(Tail(logs), user_name,
         add_row(datewise_data, DatePart(Head(logs).date),
                 [user_name |-> user_name, date |-> Head(logs).date,
                  eggs |-> Head(logs).eggs]))

\* user_totals[user_name] = data_dict['total_eggs']
set_user_total(user_totals, user_name, total) ==
  IF user_name \in Keys(user_totals) THEN Update(user_totals, user_name, total)
  ELSE Insert(user_totals, user_name, total)

\* The loop of lines 174-182; acc carries datewise_data and user_totals.
RECURSIVE export_items(_, _, _)
export_items(items, names, acc) ==
  IF items = <<>> THEN acc
  ELSE LET user_name == names[Head(items).key]
           data_dict == Head(items).value
       IN export_items(Tail(items), names,
            [datewise_data |-> export_logs(data_dict.logs, user_name, acc.datewise_data),
             user_totals |-> set_user_total(acc.user_totals, user_name,
                                            data_dict.total_eggs)])

\* df['Butir Telur'].sum()
RECURSIVE sum_rows(_)
sum_rows(rows) == IF rows = <<>> THEN 0 ELSE Head(rows).eggs + sum_rows(Tail(rows))

\* The loop of lines 189-199: one sheet per item of datewise_data, in the
\* order of the dict.
date_sheets(datewise_data) ==
  [i \in 1..Len(datewise_data) |->
     [sheet_name |-> datewise_data[i].key,
      rows |-> datewise_data[i].value,
      total |-> sum_rows(datewise_data[i].value)]]

\* The local total_eggs of export after the loop of lines 189-199.
RECURSIVE sum_sheets(_)
sum_sheets(sheets) ==
  IF sheets = <<>> THEN 0 ELSE Head(sheets).total + sum_sheets(Tail(sheets))

\* The workbook written by lines 184-211 from datewise_data and user_totals.
write_workbook(acc) ==
  LET sheets == date_sheets(acc.datewise_data)
  IN [sheets |-> sheets,
      daily_totals |-> [i \in 1..Len(sheets) |->
                          [date |-> sheets[i].sheet_name, total |-> sheets[i].total]],
      grand_total |-> sum_sheets(sheets),
      user_totals |-> acc.user_totals]

\* The workbook written by lines 167-211 for the accounts of one group.
export_workbook(members, names) ==
  write_workbook(export_items(members, names,
                              [datewise_data |-> <<>>, user_totals |-> <<>>]))

\* ---------------------------------------------------------------- handlers
\* The clock readings a handler can make after its first one.
Later(t) == {t2 \in {t, t + 1} : t2 <= MaxClock}

\* The history after a handler's reset_data_if_needed.
reset_recorded(t) == IF strftime_Ym(t) # last_reset_date THEN <<>> ELSE recorded

\* No handler of the user is suspended.
NoTask ==
  [pc |-> "idle", group |-> NoGroup, today |-> <<>>, pos |-> 0, size |-> 0,
   live |-> FALSE, items |-> <<>>, acc |-> <<>>, instants |-> {}, reply |-> <<>>]

Init ==
  /\ clock = 0
  /\ group_data = EmptyStore
  /\ total_eggs = 0
  /\ last_reset_date = strftime_Ym(0)
  /\ context_user_data = [u \in Users |-> NoGroup]
  /\ conversation = [u \in Users |-> END]
  /\ outcome = "none"
  /\ recorded = <<>>
  /\ tasks = [u \in Users |-> NoTask]

\* /start
start(u) ==
  /\ group_data' = reset_group_data(clock)
  /\ total_eggs' = reset_total_eggs(clock)
  /\ last_reset_date' = reset_last_reset_date(clock)
  /\ recorded' = reset_recorded(clock)
  /\ conversation' = [conversation EXCEPT ![u] = GROUP_CHOICE]
  /\ outcome' = "ok"
  /\ UNCHANGED <<clock, context_user_data>>

\* join_group without the test of line 83: the account is set to a new one
\* at every selection.
join_group_reset(gd, group, user_id) ==
  LET members == IF group \in DOMAIN gd THEN gd[group] ELSE <<>>
      joined  == IF user_id \in Keys(members)
                 THEN Update(members, user_id, NewAccount)
                 ELSE Insert(members, user_id, NewAccount)
  IN [g \in DOMAIN gd \cup {group} |-> IF g = group THEN joined ELSE gd[g]]

\* group_data after lines 79-84 of group_choice.
join_group(gd, group, user_id) ==
  LET members == IF group \in DOMAIN gd THEN gd[group] ELSE <<>>
      joined  == IF user_id \in Keys(members) THEN members
                 ELSE Insert(members, user_id, NewAccount)
  IN [g \in DOMAIN gd \cup {group} |-> IF g = group THEN joined ELSE gd[g]]

\* A text message while the conversation waits for the group.
group_choice(u, group) ==
  /\ conversation[u] = GROUP_CHOICE
  /\ context_user_data' = [context_user_data EXCEPT ![u] = group]
  /\ group_data' = join_group(group_data, group, u)
  /\ conversation' = [conversation EXCEPT ![u] = END]
  /\ outcome' = "ok"
  /\ UNCHANGED <<clock, total_eggs, last_reset_date, recorded>>

\* /help
help_command(u) ==
  /\ group_data' = reset_group_data(clock)
  /\ total_eggs' = reset_total_eggs(clock)
  /\ last_reset_date' = reset_last_reset_date(clock)
  /\ recorded' = reset_recorded(clock)
  /\ outcome' = "ok"
  /\ UNCHANGED <<clock, context_user_data, conversation>>

\* add_eggs with the append of line 129 left out.
add_eggs_no_log(account, date, eggs) ==
  [total_eggs |-> account.total_eggs + eggs, logs |-> account.logs]

\* The account after lines 128-129 of count_eggs.
add_eggs(account, date, eggs) ==
  [total_eggs |-> account.total_eggs + eggs,
   logs |-> Append(account.logs, [date |-> date, eggs |-> eggs])]

\* group_data[group][user_id] exists in gd.
has_account(gd, group, user_id) ==
  /\ group \in DOMAIN gd
  /\ user_id \in Keys(gd[group])

\* How count_eggs ends for the session group, the store gd left by its
\* reset_data_if_needed and the result of the search.
count_eggs_result(gd, group, user_id, match) ==
  IF group = NoGroup THEN "NoGroupSelected"
  ELSE IF match = 0 THEN "ParseFailed"
  ELSE IF ~has_account(gd, group, user_id) THEN "KeyError"
  ELSE "ok"

\* group_data after count_eggs has ended with result: lines 128-129 are
\* reached only when the account exists.
store_after(result, gd, group, user_id, date, eggs) ==
  IF result = "ok"
  THEN [gd EXCEPT ![group] =
          Update(gd[group], user_id, add_eggs(Get(gd[group], user_id), date, eggs))]
  ELSE gd

\* total_after with line 131 moved before the group and account lookups.
total_after_early(result, total, eggs) == total + eggs

\* total_after with line 131 as an assignment of eggs: what the earlier
\* calls have added is lost.
total_after_lost(result, total, eggs) ==
  IF result = "ok" THEN eggs ELSE total

\* total_eggs after count_eggs has ended with result: line 131 comes after
\* the account update.
total_after(result, total, eggs) ==
  IF result = "ok" THEN total + eggs ELSE total

\* A text message outside the conversation.  t2 is the clock reading of
\* line 125, made only when the text matches.
count_eggs(u, message_text, t2) ==
  \E match \in {search(message_text)} :
  \E result \in {count_eggs_result(reset_group_data(clock),
                                   context_user_data[u], u, match)} :
  LET gd    == reset_group_data(clock)
      group == context_user_data[u]
      eggs  == IF match = 0 THEN 0 ELSE int(group1(message_text, match))
      date  == strftime_YmdHMS(t2)
  IN
  /\ conversation[u] = END
  /\ result \in {"NoGroupSelected", "ParseFailed"} => t2 = clock
  /\ result = "ok" =>
       /\ Len(Get(gd[group], u).logs) < MaxLog
       /\ CountEntries(gd, DOMAIN gd) < MaxEntries
  /\ clock' = t2
  /\ last_reset_date' = reset_last_reset_date(clock)
  /\ group_data' = store_after(result, gd, group, u, date, eggs)
  /\ total_eggs' = total_after(result, reset_total_eggs(clock), eggs)
  /\ recorded' =
       IF result = "ok"
       THEN Append(reset_recorded(clock),
                   [user_id |-> u, group |-> group, date |-> date, eggs |-> eggs])
       ELSE reset_recorded(clock)
  /\ outcome' = result
  /\ UNCHANGED <<context_user_data, conversation>>

\* How report and export end for the session group and the store gd left
\* by their reset_data_if_needed.
read_result(gd, group) ==
  IF group = NoGroup THEN "NoGroupSelected"
  ELSE IF group \notin DOMAIN gd THEN "KeyError"
  ELSE "ok"

\* /report.  t2 is the clock reading of line 143.
report(u, t2) ==
  LET result == read_result(reset_group_data(clock), context_user_data[u])
  IN
  /\ group_data' = reset_group_data(clock)
  /\ total_eggs' = reset_total_eggs(clock)
  /\ last_reset_date' = reset_last_reset_date(clock)
  /\ recorded' = reset_recorded(clock)
  /\ IF result = "NoGroupSelected" THEN t2 = clock ELSE TRUE
  /\ clock' = t2
  /\ outcome' = result
  /\ UNCHANGED <<context_user_data, conversation>>

\* /export
export(u) ==
  LET result == read_result(reset_group_data(clock), context_user_data[u])
  IN
  /\ group_data' = reset_group_data(clock)
  /\ total_eggs' = reset_total_eggs(clock)
  /\ last_reset_date' = reset_last_reset_date(clock)
  /\ recorded' = reset_recorded(clock)
  /\ outcome' = result
  /\ UNCHANGED <<clock, context_user_data, conversation>>

\* The wall clock advances.
Tick ==
  /\ clock < MaxClock
  /\ clock' = clock + 1
  /\ UNCHANGED <<group_data, total_eggs, last_reset_date,
                 context_user_data, conversation, outcome, recorded>>

\* Updates are processed one at a time: every handler runs to its end, and
\* none is ever left suspended.
Next ==
  \/ \E u \in Users : start(u) /\ UNCHANGED tasks
  \/ \E u \in Users, group \in Groups : group_choice(u, group) /\ UNCHANGED tasks
  \/ \E u \in Users : help_command(u) /\ UNCHANGED tasks
  \/ \E u \in Users, text \in Texts, t2 \in Later(clock) :
       count_eggs(u, text, t2) /\ UNCHANGED tasks
  \/ \E u \in Users, t2 \in Later(clock) : report(u, t2) /\ UNCHANGED tasks
  \/ \E u \in Users : export(u) /\ UNCHANGED tasks
  \/ Tick /\ UNCHANGED tasks

Spec == Init /\ [][Next]_vars

\* ------------------------------------------------- more message texts
\* '1500 butir'
Text1500 ==
  <<"1", "5", "0", "0", " ", "b", "u", "t", "i", "r">>

\* 'no numbers here'
TextNoNumbers ==
  <<"n", "o", " ", "n", "u", "m", "b", "e", "r", "s", " ", "h", "e", "r",
     "e">>

\* 'abc 200 butir def 300 butir'
TextTwoMatches ==
  <<"a", "b", "c", " ", "2", "0", "0", " ", "b", "u", "t", "i", "r", " ",
     "d", "e", "f", " ", "3", "0", "0", " ", "b", "u", "t", "i", "r">>

\* '0 butir'
TextZero ==
  <<"0", " ", "b", "u", "t", "i", "r">>

\* '7BUTIR': no whitespace, upper case
TextUpper ==
  <<"7", "B", "U", "T", "I", "R">>

\* '12 34 \t Butir': the first digit run is not followed by the keyword
TextSkipped ==
  <<"1", "2", " ", "3", "4", " ", "\t", " ", "B", "u", "t", "i", "r">>

\* 'butir 5'
TextKeywordFirst ==
  <<"b", "u", "t", "i", "r", " ", "5">>

\* Message texts of count_eggs with several quantities, a zero quantity
\* and the shapes that the pattern tells apart.
ParseTexts ==
  {Text1500, TextNoNumbers, TextTwoMatches, TextZero, TextUpper, TextSkipped,
   TextKeywordFirst}

\* The one user of the specification SpecTexts.
Sender == 1

\* The handlers for one user and the texts of ParseTexts.
NextTexts ==
  \/ start(Sender) /\ UNCHANGED tasks
  \/ \E group \in Groups : group_choice(Sender, group) /\ UNCHANGED tasks
  \/ help_command(Sender) /\ UNCHANGED tasks
  \/ \E text \in ParseTexts, t2 \in Later(clock) :
       count_eggs(Sender, text, t2) /\ UNCHANGED tasks
  \/ \E t2 \in Later(clock) : report(Sender, t2) /\ UNCHANGED tasks
  \/ export(Sender) /\ UNCHANGED tasks
  \/ Tick /\ UNCHANGED tasks

SpecTexts == Init /\ [][NextTexts]_vars

\* ------------------------------------------------ months without operations
\* The clock of the specification SpecGap runs over the months 0..MaxMonth.
MaxMonth == 3

\* The last tick of the month MaxMonth.
LastTick == (MaxMonth + 1) * TicksPerDay * DaysPerMonth - 1

\* Time passes without any update: a tick, a day, or several months.
Gap ==
  /\ \E t \in (clock + 1)..LastTick : clock' = t
  /\ UNCHANGED <<group_data, total_eggs, last_reset_date,
                 context_user_data, conversation, outcome, recorded>>

\* A handler of user u; the clock readings of one handler agree.
Operation(u) ==
  \/ start(u)
  \/ \E group \in Groups : group_choice(u, group)
  \/ help_command(u)
  \/ \E text \in Texts : count_eggs(u, text, clock)
  \/ report(u, clock)
  \/ export(u)

\* The handlers for one user on a clock that can jump over months.
NextGap ==
  \/ Operation(Sender) /\ UNCHANGED tasks
  \/ Gap /\ UNCHANGED tasks

SpecGap == Init /\ [][NextGap]_vars

\* ------------------------------------------------------ concurrent dispatch
\* The updates of different users are processed concurrently, one update
\* per user at a time.  The handlers are coroutines of one event loop: a
\* handler runs alone from one await to its next one, and the handlers of
\* the other users run while it is suspended.  tasks[u] is the handler of
\* user u that is suspended: in the reply_text or reply_document at its end
\* (pc is the name of the handler), or in the get_chat of line 148
\* ("report_loop") or of line 175 ("export_loop") inside the loop over the
\* accounts.

\* group_data[group], {} when the group is not in the store.
members(gd, group) == IF group \in DOMAIN gd THEN gd[group] ELSE <<>>

\* The task t after another handler has run up to its next await.  A reset
\* rebinds group_data to a new dict: the loop of t goes on over the dict it
\* started on, which nothing changes any more.  instants is history: the
\* contents that the accounts of the group have had since the handler began.
watch(t) ==
  IF t.pc \notin {"report_loop", "export_loop"} THEN t
  ELSE [t EXCEPT
          !.live = t.live /\ last_reset_date' = last_reset_date,
          !.items = IF t.live /\ last_reset_date' # last_reset_date
                    THEN group_data[t.group] ELSE t.items,
          !.instants = t.instants \cup {members(group_data', t.group)}]

\* Handler of user u runs up to the await where it is left as task.
suspend(u, task) ==
  /\ tasks[u].pc = "idle"
  /\ tasks' = [v \in DOMAIN tasks |-> IF v = u THEN task ELSE watch(tasks[v])]

\* The handler ends in reply_text when it has a reply to send.
ends(handler, replies) ==
  [NoTask EXCEPT !.pc = IF replies THEN handler ELSE "idle"]

\* The loop over group_data[group].items() has taken its first item and
\* waits for get_chat.
loop_task(pc, group, today, acc) ==
  [NoTask EXCEPT !.pc = pc, !.group = group, !.today = today, !.pos = 1,
                 !.size = Len(group_data'[group]), !.live = TRUE, !.acc = acc,
                 !.instants = {group_data'[group]}]

\* report up to its first await: the reply of line 140, or the get_chat
\* of the first account.
report_begin(u, t2) ==
  /\ report(u, t2)
  /\ suspend(u, IF outcome' = "ok"
                THEN loop_task("report_loop", context_user_data[u],
                               strftime_Ymd(t2),
                               [lines |-> <<>>, total_eggs_today |-> 0,
                                entry_number |-> 1])
                ELSE ends("report", outcome' = "NoGroupSelected"))

\* export up to its first await.
export_begin(u) ==
  /\ export(u)
  /\ suspend(u, IF outcome' = "ok"
                THEN loop_task("export_loop", context_user_data[u], <<>>,
                               [datewise_data |-> <<>>, user_totals |-> <<>>])
                ELSE ends("export", outcome' = "NoGroupSelected"))

\* The dict that the loop of task t iterates.
iterated(t) == IF t.live THEN group_data[t.group] ELSE t.items

\* The body of the loop for the item that was taken before the await, with
\* user_name from the chat that get_chat has returned.
loop_body(t, names) ==
  LET item == iterated(t)[t.pos]
  IN IF t.pc = "report_loop"
     THEN report_items(<<item>>, names, t.today, t.acc)
     ELSE export_items(<<item>>, names, t.acc)

\* How the for statement goes on after the body: the iterator raises
\* RuntimeError when the dict has changed its size since the loop began.
loop_next(t) ==
  IF Len(iterated(t)) # t.size THEN "RuntimeError"
  ELSE IF t.pos < t.size THEN "next"
  ELSE "done"

\* get_chat returns to the loop of report or export of user u: the body
\* runs for this account, then the next item is taken and its get_chat
\* awaited, or the loop ends and the reply is built and sent.
get_chat_returns(u, names) ==
  LET t   == tasks[u]
      acc == loop_body(t, names)
  IN
  /\ t.pc \in {"report_loop", "export_loop"}
  /\ tasks' = [tasks EXCEPT ![u] =
       CASE loop_next(t) = "RuntimeError" -> NoTask
         [] loop_next(t) = "next" -> [t EXCEPT !.pos = t.pos + 1, !.acc = acc]
         [] loop_next(t) = "done" ->
              IF t.pc = "report_loop"
              THEN [NoTask EXCEPT !.pc = "report", !.reply = acc]
              ELSE [NoTask EXCEPT !.pc = "export", !.reply = write_workbook(acc)]]
  /\ outcome' = IF loop_next(t) = "RuntimeError" THEN "RuntimeError" ELSE "ok"
  /\ UNCHANGED <<clock, group_data, total_eggs, last_reset_date,
                 context_user_data, conversation, recorded>>

\* reply_text or reply_document returns and the handler ends.
reply_returns(u) ==
  /\ tasks[u].pc \notin {"idle", "report_loop", "export_loop"}
  /\ tasks' = [tasks EXCEPT ![u] = NoTask]
  /\ UNCHANGED <<clock, group_data, total_eggs, last_reset_date,
                 context_user_data, conversation, outcome, recorded>>

\* The chats that get_chat finds under concurrent dispatch: every user has
\* a name of their own.
Profiles == {(1 :> "budi" @@ 2 :> "sari" @@ 3 :> "tono")}

\* The handlers of the two users under concurrent dispatch, for one of the
\* groups, the text with a quantity and handlers that read the clock once.
NextConcurrent ==
  \/ \E u \in Users : start(u) /\ suspend(u, ends("start", TRUE))
  \/ \E u \in Users :
       group_choice(u, "Samawa Fish") /\ suspend(u, ends("group_choice", TRUE))
  \/ \E u \in Users :
       help_command(u) /\ suspend(u, ends("help_command", TRUE))
  \/ \E u \in Users, text \in Texts :
       /\ search(text) # 0
       /\ count_eggs(u, text, clock)
       /\ suspend(u, ends("count_eggs", outcome' \in {"ok", "NoGroupSelected"}))
  \/ \E u \in Users : report_begin(u, clock)
  \/ \E u \in Users : export_begin(u)
  \/ \E u \in Users, names \in Profiles : get_chat_returns(u, names)
  \/ \E u \in Users : reply_returns(u)
  \/ Tick /\ UNCHANGED tasks

SpecConcurrent == Init /\ [][NextConcurrent]_vars

\* ----------------------------------------------------------- three sessions
\* Three users, all members of one group; the first one asks for reports
\* and exports while all of them report quantities.
Sessions == {1, 2, 3}

Reader == 1

\* The state after the three users have sent /start and have chosen
\* 'Samawa Fish', one after the other.
InitSessions ==
  /\ clock = 0
  /\ group_data =
       ("Samawa Fish" :> [i \in 1..3 |-> [key |-> i, value |-> NewAccount]])
  /\ total_eggs = 0
  /\ last_reset_date = strftime_Ym(0)
  /\ context_user_data = [u \in Sessions |-> "Samawa Fish"]
  /\ conversation = [u \in Sessions |-> END]
  /\ outcome = "ok"
  /\ recorded = <<>>
  /\ tasks = [u \in Sessions |-> NoTask]

NextSessions ==
  \/ \E u \in Sessions, text \in Texts :
       /\ search(text) # 0
       /\ count_eggs(u, text, clock)
       /\ suspend(u, ends("count_eggs", outcome' \in {"ok", "NoGroupSelected"}))
  \/ report_begin(Reader, clock)
  \/ export_begin(Reader)
  \/ \E names \in Profiles : get_chat_returns(Reader, names)
  \/ \E u \in Sessions : reply_returns(u)
  \/ Tick /\ UNCHANGED tasks

SpecSessions == InitSessions /\ [][NextSessions]_vars

\* ================================================================ claims
\* Sum of the totals of the accounts of one group.
RECURSIVE SumTotals(_)
SumTotals(items) ==
  IF items = <<>> THEN 0 ELSE Head(items).value.total_eggs + SumTotals(Tail(items))

RECURSIVE SumGroups(_, _)
SumGroups(gd, gs) ==
  IF gs = {} THEN 0
  ELSE LET g == CHOOSE x \in gs : TRUE
       IN SumTotals(gd[g]) + SumGroups(gd, gs \ {g})

\* C1: every live account's total equals the sum of the quantities of the
\* entries in its log.
SumConsistency ==
  \A g \in DOMAIN group_data : \A i \in 1..Len(group_data[g]) :
    group_data[g][i].value.total_eggs = SumEggs(group_data[g][i].value.logs)

\* C1 witness: an account that holds two recorded entries.
SumConsistencyWitness ==
  \E g \in DOMAIN group_data : \E i \in 1..Len(group_data[g]) :
    /\ Len(group_data[g][i].value.logs) = 2
    /\ group_data[g][i].value.total_eggs = 4

\* C2: between handlers the module-level total_eggs equals the sum of the
\* totals of all accounts of all groups.
GrandTotalConsistency ==
  total_eggs = SumGroups(group_data, DOMAIN group_data)

\* C2 witness: both groups hold recorded entries, after a month rollover.
GrandTotalWitness ==
  /\ last_reset_date # strftime_Ym(0)
  /\ DOMAIN group_data = Groups
  /\ \A g \in Groups : SumTotals(group_data[g]) > 0
  /\ total_eggs = 4

\* A step of a handler that calls reset_data_if_needed first.
Reconciles ==
  \/ \E u \in Users : start(u) \/ help_command(u) \/ export(u)
  \/ \E u \in Users, t2 \in Later(clock) : report(u, t2)
  \/ \E u \in Users, text \in Texts, t2 \in Later(clock) : count_eggs(u, text, t2)

\* Accounts, grand total and key are all reset by the step.
ResetTogether ==
  /\ last_reset_date' # last_reset_date
  /\ last_reset_date' = strftime_Ym(clock)
  /\ group_data' = EmptyStore
  /\ total_eggs' = 0

\* None of accounts, grand total and key is reset by the step.
ResetNotAtAll ==
  /\ last_reset_date' = last_reset_date
  /\ total_eggs' >= total_eggs
  /\ \A g \in DOMAIN group_data :
       /\ g \in DOMAIN group_data'
       /\ Keys(group_data[g]) \subseteq Keys(group_data'[g])

\* C3: when the reset_data_if_needed of a handler finds the year-month of
\* the clock different from last_reset_date, the handler leaves no account
\* and no log entry, total_eggs = 0 and last_reset_date equal to that
\* year-month; and every step resets accounts, total and key together or
\* none of them.
RolloverAtomicity ==
  [][ /\ ResetTogether \/ ResetNotAtAll
      /\ (strftime_Ym(clock) # last_reset_date /\ Reconciles) => ResetTogether
    ]_vars

\* C3 witness: a rollover has cleared the store of users that had joined a
\* group in the month before.
RolloverWitness ==
  /\ last_reset_date # strftime_Ym(0)
  /\ last_reset_date = strftime_Ym(clock)
  /\ group_data = EmptyStore
  /\ total_eggs = 0
  /\ \A u \in Users : context_user_data[u] # NoGroup

\* C4: a count_eggs call with a selected group and a text that holds the
\* quantity pattern appends exactly one entry to the account of (group,
\* user), created when missing, and acknowledges the quantity.
RecordAlwaysAppends ==
  [][ \A u \in Users, text \in Texts, t2 \in Later(clock) :
        ( /\ count_eggs(u, text, t2)
          /\ context_user_data[u] # NoGroup
          /\ search(text) # 0 )
        => LET g      == context_user_data[u]
               gd     == IF strftime_Ym(clock) # last_reset_date
                         THEN EmptyStore ELSE group_data
               before == IF has_account(gd, g, u) THEN Get(gd[g], u).logs
                         ELSE <<>>
               entry  == [date |-> strftime_YmdHMS(t2),
                          eggs |-> int(group1(text, search(text)))]
           IN /\ outcome' = "ok"
              /\ has_account(group_data', g, u)
              /\ Get(group_data'[g], u).logs = Append(before, entry)
    ]_vars

\* C5: no count_eggs, report or export call ends in an uncaught fault.
NoUncaughtFault == outcome # "KeyError"

\* ------------------------------------------------------ report and export
\* The replies of report and export are outputs, not state: they are the
\* operators report_message and export_workbook applied to the store that
\* the handler's reset_data_if_needed leaves.
AllNames == [Users -> Labels]

\* /export by user u completes in this state.
ExportCompletes(u) ==
  read_result(reset_group_data(clock), context_user_data[u]) = "ok"

\* The workbook that /export by user u writes in this state.
Workbook(u, names) ==
  export_workbook(group_items(reset_group_data(clock), context_user_data[u]), names)

RECURSIVE SumDaily(_)
SumDaily(daily_totals) ==
  IF daily_totals = <<>> THEN 0
  ELSE Head(daily_totals).total + SumDaily(Tail(daily_totals))

\* C6 as claimed: the Grand Total row equals the sum of the per-date totals
\* and the module-level total_eggs at the time of the export.
ExportGrandTotalIsStoreTotal ==
  \A u \in Users, names \in AllNames :
    ExportCompletes(u) =>
      /\ Workbook(u, names).grand_total = SumDaily(Workbook(u, names).daily_totals)
      /\ Workbook(u, names).grand_total = reset_total_eggs(clock)

\* C6 amended: the Grand Total row equals the sum of the per-date totals
\* and the sum of the totals of the accounts of the selected group.
ExportGrandTotalIsGroupTotal ==
  \A u \in Users, names \in AllNames :
    ExportCompletes(u) =>
      /\ Workbook(u, names).grand_total = SumDaily(Workbook(u, names).daily_totals)
      /\ Workbook(u, names).grand_total =
           SumTotals(reset_group_data(clock)[context_user_data[u]])

\* C6 witness: an export over two dates of a group, while the other group
\* holds an entry too.
ExportGrandTotalWitness ==
  \E u \in Users, names \in AllNames :
    /\ ExportCompletes(u)
    /\ Len(Workbook(u, names).sheets) = 2
    /\ Workbook(u, names).grand_total = 4
    /\ reset_total_eggs(clock) = 6

\* Calendar order of two '%Y-%m-%d' dates.
DateBefore(a, b) == a[1] < b[1] \/ (a[1] = b[1] /\ a[2] < b[2])

\* C7: export emits its per-date sheets in ascending date order.
ExportSheetsAscending ==
  \A u \in Users, names \in AllNames :
    ExportCompletes(u) =>
      \A i, j \in 1..Len(Workbook(u, names).sheets) :
        i < j => DateBefore(Workbook(u, names).sheets[i].sheet_name,
                            Workbook(u, names).sheets[j].sheet_name)

\* /report by user u completes in this state.
ReportCompletes(u) ==
  read_result(reset_group_data(clock), context_user_data[u]) = "ok"

\* The report that /report by user u sends in this state when line 143
\* reads the clock at t2.
Report(u, names, t2) ==
  report_message(group_items(reset_group_data(clock), context_user_data[u]),
                 names, strftime_Ymd(t2))

\* The acknowledged reports of group g on the date today, in arrival order.
Arrivals(g, today) ==
  LET Test(r) == r.group = g /\ startswith(r.date, today)
  IN SelectSeq(reset_recorded(clock), Test)

\* The report line of number n for the acknowledged report r.
Line(n, r, names) ==
  [number |-> n, user_name |-> names[r.user_id], eggs |-> r.eggs, date |-> r.date]

\* One user reported, then another one, then the first one again.
ABA(arr) ==
  /\ Len(arr) = 3
  /\ arr[1].user_id = arr[3].user_id
  /\ arr[2].user_id # arr[1].user_id

\* Position of the account of user_id in the items of a group.
Position(items, user_id) == CHOOSE i \in 1..Len(items) : items[i].key = user_id

\* C8 as claimed: entries of today recorded in the order A, B, A give three
\* report lines numbered 1 to 3 in that same order, and a total equal to
\* the sum of the three quantities.
ReportInArrivalOrder ==
  \A u \in Users, names \in AllNames, t2 \in Later(clock) :
    LET arr == Arrivals(context_user_data[u], strftime_Ymd(t2))
        rep == Report(u, names, t2)
    IN (ReportCompletes(u) /\ ABA(arr)) =>
         /\ rep.lines = << Line(1, arr[1], names), Line(2, arr[2], names),
                           Line(3, arr[3], names) >>
         /\ rep.total_eggs_today = arr[1].eggs + arr[2].eggs + arr[3].eggs

\* C8 amended: the three lines are numbered 1 to 3 account by account, in
\* the order in which the accounts were created in the group, and in log
\* order within an account: A's two entries then B's entry when A's
\* account is the older one, B's entry then A's two entries otherwise; the
\* total is the sum of the three quantities.
ReportInAccountOrder ==
  \A u \in Users, names \in AllNames, t2 \in Later(clock) :
    LET arr   == Arrivals(context_user_data[u], strftime_Ymd(t2))
        rep   == Report(u, names, t2)
        items == reset_group_data(clock)[context_user_data[u]]
    IN (ReportCompletes(u) /\ ABA(arr)) =>
         /\ rep.lines =
              IF Position(items, arr[1].user_id) < Position(items, arr[2].user_id)
              THEN << Line(1, arr[1], names), Line(2, arr[3], names),
                      Line(3, arr[2], names) >>
              ELSE << Line(1, arr[2], names), Line(2, arr[1], names),
                      Line(3, arr[3], names) >>
         /\ rep.total_eggs_today = arr[1].eggs + arr[2].eggs + arr[3].eggs

\* C8 witness: a user can ask for the report of a group and a day on which
\* A, B and A again have reported, B's account being the newer one.
ReportOrderWitness ==
  \E u \in Users, t2 \in Later(clock) :
    LET arr   == Arrivals(context_user_data[u], strftime_Ymd(t2))
        items == reset_group_data(clock)[context_user_data[u]]
    IN /\ ReportCompletes(u)
       /\ ABA(arr)
       /\ Position(items, arr[1].user_id) < Position(items, arr[2].user_id)

\* Sum of the quantities of a sequence of acknowledged reports.
RECURSIVE SumRecorded(_)
SumRecorded(rs) == IF rs = <<>> THEN 0 ELSE Head(rs).eggs + SumRecorded(Tail(rs))

\* The acknowledged reports made while the selected group was g.
RecordedIn(g) ==
  LET Test(r) == r.group = g IN SelectSeq(recorded, Test)

\* The acknowledged reports of user_id made while the selected group was g.
RecordedBy(g, user_id) ==
  LET Test(r) == r.group = g /\ r.user_id = user_id IN SelectSeq(recorded, Test)

\* The dates '%Y-%m-%d' of the model calendar.
Dates == {strftime_Ymd(t) : t \in 0..MaxClock}

\* C9: an entry recorded while the selected group is G1 is stored only under
\* G1: the log of every account of a group g is the sequence of the reports
\* acknowledged for that user while g was selected; and every line of the
\* report of g, every row and total of the export of g comes from a report
\* acknowledged while g was selected.
GroupIsolation ==
  \A g \in DOMAIN group_data :
    /\ \A i \in 1..Len(group_data[g]) :
         LET rs == RecordedBy(g, group_data[g][i].key)
         IN group_data[g][i].value.logs =
              [k \in 1..Len(rs) |-> [date |-> rs[k].date, eggs |-> rs[k].eggs]]
    /\ \A names \in AllNames :
         /\ \A today \in Dates :
              LET rep == report_message(group_items(group_data, g), names, today)
                  Today(r) == startswith(r.date, today)
              IN /\ \A k \in 1..Len(rep.lines) :
                      \E n \in 1..Len(RecordedIn(g)) :
                        rep.lines[k] = Line(k, RecordedIn(g)[n], names)
                 /\ Len(rep.lines) = Len(SelectSeq(RecordedIn(g), Today))
                 /\ rep.total_eggs_today = SumRecorded(SelectSeq(RecordedIn(g), Today))
         /\ LET wb == export_workbook(group_items(group_data, g), names)
            IN /\ wb.grand_total = SumRecorded(RecordedIn(g))
               /\ \A k \in 1..Len(wb.sheets) :
                    LET On(r) == DatePart(r.date) = wb.sheets[k].sheet_name
                    IN /\ wb.sheets[k].total = SumRecorded(SelectSeq(RecordedIn(g), On))
                       /\ wb.daily_totals[k].total = wb.sheets[k].total
                       /\ \A m \in 1..Len(wb.sheets[k].rows) :
                            \E n \in 1..Len(RecordedIn(g)) :
                              wb.sheets[k].rows[m] =
                                [user_name |-> names[RecordedIn(g)[n].user_id],
                                 date |-> RecordedIn(g)[n].date,
                                 eggs |-> RecordedIn(g)[n].eggs]
               /\ \A k \in 1..Len(wb.user_totals) :
                    \E i \in 1..Len(group_data[g]) :
                      /\ names[group_data[g][i].key] = wb.user_totals[k].key
                      /\ wb.user_totals[k].value =
                           SumRecorded(RecordedBy(g, group_data[g][i].key))

\* C9 witness: a user has reported under one group, switched to the other
\* group and reported there too.
GroupIsolationWitness ==
  \E i, j \in 1..Len(recorded) :
    /\ recorded[i].user_id = recorded[j].user_id
    /\ recorded[i].group # recorded[j].group
    /\ DOMAIN group_data = Groups
    /\ \A g \in Groups : SumTotals(group_data[g]) > 0

\* C10: a count_eggs call that acknowledges no quantity leaves every
\* account and total_eggs as its reset_data_if_needed left them.
FailedRecordChangesNothing ==
  [][ \A u \in Users, text \in Texts, t2 \in Later(clock) :
        (outcome' # "ok" /\ count_eggs(u, text, t2)) =>
          /\ group_data' = IF strftime_Ym(clock) # last_reset_date
                           THEN EmptyStore ELSE group_data
          /\ total_eggs' = IF strftime_Ym(clock) # last_reset_date
                           THEN 0 ELSE total_eggs
    ]_vars

\* C10 witness: a text without the quantity pattern was sent to a store
\* that holds entries.
FailedRecordWitness ==
  /\ outcome = "ParseFailed"
  /\ total_eggs > 0
  /\ group_data # EmptyStore

\* C11: every count_eggs call with a selected group and a text that holds
\* the quantity pattern adds exactly one entry, whatever the quantity (a 0
\* too) and whatever the entries already in the log: the log of the account
\* grows by that one entry, the account total and total_eggs by the
\* quantity, so that k identical messages give k entries and k times the
\* quantity.
EveryRecordAddsOneEntry ==
  [][ \A text \in ParseTexts, t2 \in Later(clock) :
        ( /\ count_eggs(Sender, text, t2)
          /\ context_user_data[Sender] # NoGroup
          /\ search(text) # 0 )
        => LET g      == context_user_data[Sender]
               gd     == IF strftime_Ym(clock) # last_reset_date
                         THEN EmptyStore ELSE group_data
               total  == IF strftime_Ym(clock) # last_reset_date
                         THEN 0 ELSE total_eggs
               before == IF has_account(gd, g, Sender) THEN Get(gd[g], Sender)
                         ELSE NewAccount
               q      == int(group1(text, search(text)))
           IN /\ has_account(group_data', g, Sender)
              /\ Get(group_data'[g], Sender).logs =
                   Append(before.logs, [date |-> strftime_YmdHMS(t2), eggs |-> q])
              /\ Get(group_data'[g], Sender).total_eggs = before.total_eggs + q
              /\ total_eggs' = total + q
    ]_vars

\* No entry of an earlier month is left in the store gd, and the total is
\* the one of the entries it holds.
ClearedFor(gd, total, month) ==
  /\ \A g \in DOMAIN gd : \A i \in 1..Len(gd[g]) :
       \A k \in 1..Len(gd[g][i].value.logs) :
         SubSeq(gd[g][i].value.logs[k].date, 1, 1) = month
  /\ total = SumGroups(gd, DOMAIN gd)

\* Every account of the store before the step is in the store after it, with
\* its log extended by at most the entry of the step.
NothingCleared ==
  /\ total_eggs' >= total_eggs
  /\ \A g \in DOMAIN group_data : \A i \in 1..Len(group_data[g]) :
       /\ has_account(group_data', g, group_data[g][i].key)
       /\ LET old == group_data[g][i].value.logs
              new == Get(group_data'[g], group_data[g][i].key).logs
          IN Len(old) <= Len(new) /\ SubSeq(new, 1, Len(old)) = old

\* The clock is several months past the stored key.
SeveralMonthsLater == strftime_Ym(clock)[1] > last_reset_date[1] + 1

\* C12: a handler that runs while the year-month of the clock is the stored
\* key clears nothing and leaves the key, so a second reset_data_if_needed
\* in the same month is a no-op; the first handler that runs after a gap of
\* several months clears the store and adopts the month of the clock, so
\* that the store is cleared once, by that handler, and the months in
\* between leave no trace.
ReconcileOncePerGap ==
  [][ Operation(Sender) =>
        /\ strftime_Ym(clock) = last_reset_date =>
             last_reset_date' = last_reset_date /\ NothingCleared
        /\ SeveralMonthsLater =>
             /\ last_reset_date' = strftime_Ym(clock)
             /\ ClearedFor(group_data', total_eggs', strftime_Ym(clock))
    ]_vars

\* The places of text where the quantity pattern occurs: text[i..j] are
\* digits and, after whitespace or none, the keyword follows in any case.
Occurrences(text) ==
  { p \in (1..Len(text)) \X (1..Len(text)) :
      /\ p[1] <= p[2]
      /\ \A k \in p[1]..p[2] : IsDigit(text[k])
      /\ \E b \in (p[2] + 1)..Len(text) :
           /\ \A k \in (p[2] + 1)..(b - 1) : IsSpace(text[k])
           /\ b + 4 <= Len(text)
           /\ <<Lower(text[b]), Lower(text[b + 1]), Lower(text[b + 2]),
                Lower(text[b + 3]), Lower(text[b + 4])>> = Keyword }

\* The leftmost occurrence.
FirstOccurrence(text) ==
  CHOOSE p \in Occurrences(text) : \A q \in Occurrences(text) : p[1] <= q[1]

RECURSIVE Pow10(_)
Pow10(n) == IF n = 0 THEN 1 ELSE 10 * Pow10(n - 1)

\* The number written by the decimal digits text[i..j].
RECURSIVE Decimal(_, _, _)
Decimal(text, i, j) ==
  IF i > j THEN 0
  ELSE DigitValue(text[i]) * Pow10(j - i) + Decimal(text, i + 1, j)

\* What the claim expects of each text: whether a quantity is found, and
\* its value.
ExpectedQuantity ==
  [text \in ParseTexts |->
     IF Occurrences(text) = {} THEN [found |-> FALSE, value |-> 0]
     ELSE [found |-> TRUE,
           value |-> Decimal(text, FirstOccurrence(text)[1], FirstOccurrence(text)[2])]]

\* C13: count_eggs takes as quantity the integer value of the leftmost digit
\* sequence that is followed, after optional whitespace, by 'butir' in any
\* letter case, and finds no quantity exactly when there is no such
\* occurrence: '1500 butir' gives 1500, 'no numbers here' gives none,
\* 'abc 200 butir def 300 butir' gives 200; the quantity is never negative.
ParserTakesFirstQuantity ==
  [][ \A text \in ParseTexts, t2 \in Later(clock) :
        ( /\ context_user_data[Sender] # NoGroup
          /\ clock' = t2
          /\ count_eggs(Sender, text, t2) ) =>
          /\ outcome' = "ParseFailed" <=> ~ExpectedQuantity[text].found
          /\ text = TextNoNumbers => outcome' = "ParseFailed"
          /\ outcome' = "ok" =>
               LET eggs == recorded'[Len(recorded')].eggs
               IN /\ eggs = ExpectedQuantity[text].value
                  /\ eggs >= 0
                  /\ text = Text1500 => eggs = 1500
                  /\ text = TextTwoMatches => eggs = 200
    ]_vars

\* C13 witness: 'abc 200 butir def 300 butir' and '12 34 \t Butir' have been
\* recorded, and 'butir 5' was sent last.
ParserWitness ==
  /\ Len(recorded) = 2
  /\ recorded[1].eggs = 200
  /\ recorded[2].eggs = 34
  /\ outcome = "ParseFailed"

\* A step of a handler that reads or writes group_data.
StoreAccess ==
  \/ \E u \in Users, group \in Groups : group_choice(u, group)
  \/ \E u \in Users : export(u)
  \/ \E u \in Users, t2 \in Later(clock) : report(u, t2)
  \/ \E u \in Users, text \in Texts, t2 \in Later(clock) : count_eggs(u, text, t2)

\* C14: group_choice, count_eggs, report and export run
\* reset_data_if_needed before they touch group_data: the handler leaves
\* the stored key equal to the year-month that the clock had when it
\* started, and when that differs from the key it found, the store it
\* leaves holds nothing of the month before.
ReconcileBeforeAccess ==
  [][ \/ /\ last_reset_date' = strftime_Ym(clock)
         /\ \/ last_reset_date = strftime_Ym(clock)
            \/ ~StoreAccess
            \/ \A g \in DOMAIN group_data' : group_data'[g] = <<>>
      \/ ~StoreAccess
    ]_vars

\* The loop of report or export of user u ends in the step.
LoopEnds(u) ==
  /\ tasks[u].pc \in {"report_loop", "export_loop"}
  /\ tasks'[u].pc \notin {"report_loop", "export_loop"}

\* What the handler of task t sends when it reads the accounts D at once.
Rendering(t, D, names) ==
  IF t.pc = "report_loop" THEN report_message(D, names, t.today)
  ELSE export_workbook(D, names)

RecordIsAtomic ==
  /\ SumConsistency
  /\ total_eggs = SumRecorded(recorded)
  /\ GrandTotalConsistency
  /\ CountEntries(group_data, DOMAIN group_data) = Len(recorded)

\* Two reports of different users are in flight at once, both waiting in
\* the reply_text of line 133, and both quantities are in the totals.
RecordIsAtomicWitness ==
  /\ \A u \in Users : tasks[u].pc = "count_eggs"
  /\ Len(recorded) = 2
  /\ recorded[1].user_id # recorded[2].user_id
  /\ total_eggs = recorded[1].eggs + recorded[2].eggs
  /\ total_eggs = 4

\* The entries of today in the accounts items, each as the pair of the
\* position of its account and its index in the log of the account.
Listed(items, today) ==
  { p \in (1..Len(items)) \X (1..MaxLog) :
      /\ p[2] <= Len(items[p[1]].value.logs)
      /\ startswith(items[p[1]].value.logs[p[2]].date, today) }

\* Entry p comes before entry q: its account was inserted earlier, or it
\* is an earlier entry of the same account.
ListedBefore(p, q) == p[1] < q[1] \/ (p[1] = q[1] /\ p[2] < q[2])

\* The number of entry p among the entries S.
ListedNumber(p, S) == 1 + Cardinality({ q \in S : ListedBefore(q, p) })

\* Sum of the quantities of report lines.
RECURSIVE SumLines(_)
SumLines(lines) ==
  IF lines = <<>> THEN 0 ELSE Head(lines).eggs + SumLines(Tail(lines))

\* C17: the report of a group lists exactly the entries of its accounts
\* that are dated today, account by account in the order in which the
\* accounts were inserted into the group and in log order within an
\* account, numbered 1 to n across the accounts, and its total is the sum
\* of the quantities listed.
ReportListsToday ==
  \A u \in Users, names \in AllNames, t2 \in Later(clock) :
    ReportCompletes(u) =>
      LET items == reset_group_data(clock)[context_user_data[u]]
          rep   == Report(u, names, t2)
          S     == Listed(items, strftime_Ymd(t2))
      IN /\ Len(rep.lines) = Cardinality(S)
         /\ \A p \in S :
              rep.lines[ListedNumber(p, S)] =
                [number |-> ListedNumber(p, S),
                 user_name |-> names[items[p[1]].key],
                 eggs |-> items[p[1]].value.logs[p[2]].eggs,
                 date |-> items[p[1]].value.logs[p[2]].date]
         /\ rep.total_eggs_today = SumLines(rep.lines)

\* C17 witness: a user can ask for the report of a group in which two
\* accounts hold an entry of today, the older account after an entry of
\* another day that the report leaves out.
ReportListsTodayWitness ==
  \E u \in Users, t2 \in Later(clock) :
    /\ ReportCompletes(u)
    /\ LET items == reset_group_data(clock)[context_user_data[u]]
           S     == Listed(items, strftime_Ymd(t2))
       IN /\ Len(items) = 2
          /\ S = {<<1, 2>>, <<2, 1>>}
          /\ Len(items[1].value.logs) = 2

\* Sum of the values of the items of a dict.
RECURSIVE SumValues(_)
SumValues(d) == IF d = <<>> THEN 0 ELSE Head(d).value + SumValues(Tail(d))

\* C18: the user-totals sheet of an export has one row for every account
\* of the selected group, in the order of the accounts, with the display
\* name and the total of the account, and its rows sum to the Grand
\* Total, whatever names the chat lookup returns, the same name for two
\* users included.
UserTotalsOneRowPerAccount ==
  \A u \in Users, names \in AllNames :
    ExportCompletes(u) =>
      LET items == reset_group_data(clock)[context_user_data[u]]
          wb    == Workbook(u, names)
      IN /\ Len(wb.user_totals) = Len(items)
         /\ \A i \in 1..Len(items) :
              wb.user_totals[i] = [key |-> names[items[i].key],
                                   value |-> items[i].value.total_eggs]
         /\ SumValues(wb.user_totals) = wb.grand_total

\* C19: between handlers every entry of every log is dated in the month of
\* last_reset_date, also when the month changes between the clock reading
\* of reset_data_if_needed and the one of line 125.
EntriesOfStoredMonth ==
  \A g \in DOMAIN group_data : \A i \in 1..Len(group_data[g]) :
    \A j \in 1..Len(group_data[g][i].value.logs) :
      startswith(group_data[g][i].value.logs[j].date, last_reset_date)

\* C20: a group selection changes no existing account: every group and
\* every account of the store stays where it is with its total and its
\* log, total_eggs stays, and what the store gains is at most the chosen
\* group and, at the end of that group, an account of the user with
\* total 0 and an empty log.
GroupChoiceKeepsAccounts ==
  [][ \A u \in Users, group \in Groups :
        group_choice(u, group) =>
          /\ total_eggs' = total_eggs
          /\ DOMAIN group_data \subseteq DOMAIN group_data'
          /\ DOMAIN group_data' \subseteq DOMAIN group_data \cup {group}
          /\ \A g \in DOMAIN group_data :
               /\ Len(group_data'[g]) >= Len(group_data[g])
               /\ SubSeq(group_data'[g], 1, Len(group_data[g])) = group_data[g]
               /\ g # group => group_data'[g] = group_data[g]
          /\ LET before == members(group_data, group)
             IN group_data'[group] =
                  IF u \in Keys(before) THEN before
                  ELSE Append(before, [key |-> u, value |-> NewAccount])
    ]_vars

\* C20 witness: a user who has reported under one group and then under the
\* other one has selected the first group again, where their account holds
\* the entries reported before.
GroupChoiceWitness ==
  \E u \in Users :
    LET By(r) == r.user_id = u
        mine  == SelectSeq(recorded, By)
    IN /\ Len(mine) >= 2
       /\ conversation[u] = END
       /\ has_account(group_data, context_user_data[u], u)
       /\ mine[Len(mine)].group # context_user_data[u]
       /\ mine[1].group = context_user_data[u]
       /\ Get(group_data[context_user_data[u]], u).logs # <<>>

====
